---------------------------- MODULE Spec2Model ----------------------------
(***************************************************************************)
(* A model of the IP Assistant MCP server (src/main.py,                    *)
(* src/calander_auth.py): the four tools search_patents, schedule_meeting, *)
(* find_available_times and list_upcoming_meetings, the calendar and       *)
(* search collaborators they call, and the event loop / worker threads     *)
(* they run on.                                                            *)
(*                                                                         *)
(* Text is modelled as a sequence of atoms (TLA+ strings).  Text that the  *)
(* program parses or builds character by character (dates, times, numbers, *)
(* ISO timestamps) is a sequence of one-character atoms; a fixed literal   *)
(* of the source is one atom.  A multi-line string is a sequence of lines. *)
(* The cross-mark, check-mark and other pictographs of the source are      *)
(* written as their code points ("U+274C").                                *)
(***************************************************************************)
EXTENDS Integers, Sequences, FiniteSets, TLC

VARIABLES
    pc,        \* "idle" | "done": the position of the tool call in progress
    tool,      \* name of the tool that was invoked last
    args,      \* the arguments it was invoked with
    calls,     \* the requests it made to its collaborators, with their answers
    ret,       \* what crossed the tool boundary: a returned text or an exception
    clock,     \* wall clock (datetime.now()), in half seconds since the server started
    thr,       \* the tool calls accepted, each with the position of its coroutine or worker
    loop,      \* the call whose blocking helper the event-loop thread runs; 0: none
    submitted, \* every conference createRequest built: <<call, requestId>>
    delivered, \* the result handed back to the caller of each call
    nextId     \* number of tool calls accepted so far

vars == <<pc, tool, args, calls, ret, clock, thr, loop, submitted, delivered, nextId>>

-----------------------------------------------------------------------------
(* Bounds of the model *)

\* longest list of events the calendar client answers with
MaxEvents == 3
\* tool calls accepted in one run of the concurrent model
MaxCalls == 2
\* half seconds the clock may advance in one run of the concurrent model
MaxClock == 2
\* worker threads of the default executor in the concurrent model
MaxWorkers == 2

-----------------------------------------------------------------------------
(* Characters and numbers *)

Digit == <<"0", "1", "2", "3", "4", "5", "6", "7", "8", "9">>

DigitChars == {Digit[i] : i \in 1..10}

DigitVal(c) == (CHOOSE i \in 1..10 : Digit[i] = c) - 1

IsDigits(s) == \A i \in 1..Len(s) : s[i] \in DigitChars

RECURSIVE StrToInt(_)
\* int("...") of a digit string
StrToInt(s) ==
    IF Len(s) = 0 THEN 0
    ELSE 10 * StrToInt(SubSeq(s, 1, Len(s) - 1)) + DigitVal(s[Len(s)])

RECURSIVE IntToStr(_)
\* str(n) of a natural number
IntToStr(n) ==
    IF n < 10 THEN <<Digit[n + 1]>>
    ELSE IntToStr(n \div 10) \o <<Digit[(n % 10) + 1]>>

\* str(n) of an integer, with its sign
SignedToStr(n) == IF n < 0 THEN <<"-">> \o IntToStr(0 - n) ELSE IntToStr(n)

RECURSIVE ZeroPad(_, _)
\* "%0wd" % n
ZeroPad(n, w) ==
    LET s == IntToStr(n)
    IN  IF Len(s) >= w THEN s ELSE <<"0">> \o ZeroPad(n, w - 1)

\* s contains t as a contiguous run of atoms
Contains(s, t) ==
    \E i \in 0..(Len(s) - Len(t)) : SubSeq(s, i + 1, i + Len(t)) = t

RECURSIVE Flatten(_)
\* the atoms of a multi-line text, line after line
Flatten(lines) ==
    IF Len(lines) = 0 THEN <<>> ELSE Head(lines) \o Flatten(Tail(lines))

\* F(v), with v evaluated once: an assignment to a local variable
With(v, F(_)) == CHOOSE y \in {F(x) : x \in {v}} : TRUE

-----------------------------------------------------------------------------
(* The proleptic Gregorian calendar of datetime *)

IsLeap(y) == (y % 4 = 0) /\ ((y % 100 # 0) \/ (y % 400 = 0))

DaysBeforeMonthTable == <<0, 31, 59, 90, 120, 151, 181, 212, 243, 273, 304, 334>>

DaysInMonthTable == <<31, 28, 31, 30, 31, 30, 31, 31, 30, 31, 30, 31>>

DaysInMonth(y, m) == IF m = 2 /\ IsLeap(y) THEN 29 ELSE DaysInMonthTable[m]

DaysBeforeMonth(y, m) ==
    DaysBeforeMonthTable[m] + (IF m > 2 /\ IsLeap(y) THEN 1 ELSE 0)

DaysBeforeYear(y) ==
    LET p == y - 1 IN p * 365 + (p \div 4) - (p \div 100) + (p \div 400)

\* date.toordinal(): 1 for 0001-01-01
ToOrdinal(y, m, d) == DaysBeforeYear(y) + DaysBeforeMonth(y, m) + d

\* date.fromordinal(n), as <<year, month, day>>
FromOrdinal(n) ==
    LET n0   == n - 1
        n400 == n0 \div 146097
        r400 == n0 % 146097
        n100 == r400 \div 36524
        r100 == r400 % 36524
        n4   == r100 \div 1461
        r4   == r100 % 1461
        n1   == r4 \div 365
        r1   == r4 % 365
        year == n400 * 400 + 1 + n100 * 100 + n4 * 4 + n1
    IN  IF n1 = 4 \/ n100 = 4 THEN <<year - 1, 12, 31>>
        ELSE
            LET est  == (r1 + 50) \div 32
                pre  == DaysBeforeMonth(year, est)
                mon  == IF pre > r1 THEN est - 1 ELSE est
                prec == DaysBeforeMonth(year, mon)
            IN  <<year, mon, r1 - prec + 1>>

\* date.weekday(): Monday is 0
Weekday(y, m, d) == (ToOrdinal(y, m, d) + 6) % 7

DayNames ==
    <<"Monday", "Tuesday", "Wednesday", "Thursday", "Friday", "Saturday", "Sunday">>

MonthNames ==
    <<"January", "February", "March", "April", "May", "June", "July",
      "August", "September", "October", "November", "December">>

\* a naive datetime; strptime and replace() leave the seconds at 0
DateTime(y, m, d, hh, mi) == [Y |-> y, M |-> m, D |-> d, h |-> hh, mi |-> mi, s |-> 0]

\* minutes from 0001-01-01 00:00 to the wall-clock value dt
WallMinutes(dt) == (ToOrdinal(dt.Y, dt.M, dt.D) - 1) * 1440 + dt.h * 60 + dt.mi

\* datetime + timedelta(minutes=n)
AddMinutes(dt, n) ==
    LET total == WallMinutes(dt) + n
        day   == total \div 1440
        rest  == total % 1440
        ymd   == FromOrdinal(day + 1)
    IN  [Y |-> ymd[1], M |-> ymd[2], D |-> ymd[3],
         h |-> rest \div 60, mi |-> rest % 60, s |-> dt.s]

-----------------------------------------------------------------------------
(* datetime.strptime, isoformat, strftime, fromisoformat *)

WhitespaceChars == {" ", "\t"}

\* %Y: \d\d\d\d
YearField(f) == Len(f) = 4 /\ IsDigits(f)

\* %m: 1[0-2]|0[1-9]|[1-9]
MonthField(f) == Len(f) \in 1..2 /\ IsDigits(f) /\ StrToInt(f) \in 1..12

\* %d: 3[0-1]|[1-2]\d|0[1-9]|[1-9]| [1-9]
DayField(f) ==
    \/ Len(f) \in 1..2 /\ IsDigits(f) /\ StrToInt(f) \in 1..31
    \/ Len(f) = 2 /\ f[1] = " " /\ f[2] \in DigitChars /\ DigitVal(f[2]) \in 1..9

\* %H: 2[0-3]|[0-1]\d|\d
HourField(f) == Len(f) \in 1..2 /\ IsDigits(f) /\ StrToInt(f) \in 0..23

\* %M: [0-5]\d|\d
MinuteField(f) == Len(f) \in 1..2 /\ IsDigits(f) /\ StrToInt(f) \in 0..59

DayValue(f) == IF f[1] = " " THEN DigitVal(f[2]) ELSE StrToInt(f)

\* The ways the pattern %Y-%m-%d matches a prefix of s: <<month length, day length>>.
\* Every field ends at a character its pattern cannot take, so at most one fits.
DatePrefixes(s) ==
    {p \in (1..2) \X (1..2) :
        /\ Len(s) >= 6 + p[1] + p[2]
        /\ YearField(SubSeq(s, 1, 4))
        /\ s[5] = "-"
        /\ MonthField(SubSeq(s, 6, 5 + p[1]))
        /\ s[6 + p[1]] = "-"
        /\ DayField(SubSeq(s, 7 + p[1], 6 + p[1] + p[2]))}

\* datetime(year, month, day, ...) rejects year 0 and a day the month lacks
ValidDate(y, m, d) == y >= 1 /\ d <= DaysInMonth(y, m)

Unparsed == [ok |-> FALSE]

\* datetime.strptime(s, "%Y-%m-%d"): [ok |-> FALSE] stands for ValueError
StrptimeDate(s) ==
    LET fits == {p \in DatePrefixes(s) : Len(s) = 6 + p[1] + p[2]}
    IN  IF fits = {} THEN Unparsed
        ELSE
            LET p == CHOOSE q \in fits : TRUE
                y == StrToInt(SubSeq(s, 1, 4))
                m == StrToInt(SubSeq(s, 6, 5 + p[1]))
                d == DayValue(SubSeq(s, 7 + p[1], 6 + p[1] + p[2]))
            IN  IF ValidDate(y, m, d)
                THEN [ok |-> TRUE, dt |-> DateTime(y, m, d, 0, 0)]
                ELSE Unparsed

\* The ways " %H:%M" matches s from position i to its end:
\* <<whitespace length, hour length, minute length>>.
TimeSuffixes(s, i) ==
    {t \in (1..Len(s)) \X (1..2) \X (1..2) :
        /\ Len(s) = i - 1 + t[1] + t[2] + 1 + t[3]
        /\ \A k \in i..(i + t[1] - 1) : s[k] \in WhitespaceChars
        /\ HourField(SubSeq(s, i + t[1], i + t[1] + t[2] - 1))
        /\ s[i + t[1] + t[2]] = ":"
        /\ MinuteField(SubSeq(s, i + t[1] + t[2] + 1, Len(s)))}

\* datetime.strptime(s, "%Y-%m-%d %H:%M"): [ok |-> FALSE] stands for ValueError
StrptimeDateTime(s) ==
    LET fits == {p \in DatePrefixes(s) : TimeSuffixes(s, 7 + p[1] + p[2]) # {}}
    IN  IF fits = {} THEN Unparsed
        ELSE
            LET p  == CHOOSE q \in fits : TRUE
                i  == 7 + p[1] + p[2]
                t  == CHOOSE u \in TimeSuffixes(s, i) : TRUE
                y  == StrToInt(SubSeq(s, 1, 4))
                m  == StrToInt(SubSeq(s, 6, 5 + p[1]))
                d  == DayValue(SubSeq(s, 7 + p[1], 6 + p[1] + p[2]))
                hh == StrToInt(SubSeq(s, i + t[1], i + t[1] + t[2] - 1))
                mi == StrToInt(SubSeq(s, i + t[1] + t[2] + 1, Len(s)))
            IN  IF ValidDate(y, m, d)
                THEN [ok |-> TRUE, dt |-> DateTime(y, m, d, hh, mi)]
                ELSE Unparsed

\* f"{date} {time}"
JoinDateTime(date, time) == date \o <<" ">> \o time

\* date part of isoformat(): YYYY-MM-DD
IsoDate(dt) ==
    ZeroPad(dt.Y, 4) \o <<"-">> \o ZeroPad(dt.M, 2) \o <<"-">> \o ZeroPad(dt.D, 2)

\* datetime.isoformat() of a naive datetime without microseconds
IsoFormat(dt) ==
    IsoDate(dt) \o <<"T">> \o ZeroPad(dt.h, 2) \o <<":">> \o ZeroPad(dt.mi, 2)
        \o <<":">> \o ZeroPad(dt.s, 2)

\* %I:%M %p
FmtTime12(dt) ==
    LET h12 == IF dt.h % 12 = 0 THEN 12 ELSE dt.h % 12
    IN  ZeroPad(h12, 2) \o <<":">> \o ZeroPad(dt.mi, 2) \o <<" ">>
            \o <<IF dt.h < 12 THEN "AM" ELSE "PM">>

\* %A, %B %d
FmtDayKey(dt) ==
    <<DayNames[Weekday(dt.Y, dt.M, dt.D) + 1], ",", " ", MonthNames[dt.M], " ">>
        \o ZeroPad(dt.D, 2)

\* %A, %B %d, %Y
FmtLongDate(dt) == FmtDayKey(dt) \o <<",", " ">> \o ZeroPad(dt.Y, 4)

\* %A, %B %d, %Y at %I:%M %p
FmtLongDateTime(dt) == FmtLongDate(dt) \o <<" at ">> \o FmtTime12(dt)

RECURSIVE ReplaceZ(_)
\* s.replace('Z', '+00:00')
ReplaceZ(s) ==
    IF Len(s) = 0 THEN <<>>
    ELSE (IF Head(s) = "Z" THEN <<"+", "0", "0", ":", "0", "0">> ELSE <<Head(s)>>)
            \o ReplaceZ(Tail(s))

\* 'T' in s
HasT(s) == \E i \in 1..Len(s) : s[i] = "T"

\* datetime.fromisoformat(s) of YYYY-MM-DDTHH:MM:SS with an optional +HH:MM or
\* -HH:MM offset; the offset is kept apart and the fields are the wall-clock
\* value written in s.  [ok |-> FALSE] stands for ValueError.
FromIsoFormat(s) ==
    LET shape ==
            /\ Len(s) \in {19, 25}
            /\ IsDigits(SubSeq(s, 1, 4)) /\ s[5] = "-"
            /\ IsDigits(SubSeq(s, 6, 7)) /\ s[8] = "-"
            /\ IsDigits(SubSeq(s, 9, 10))
            /\ IsDigits(SubSeq(s, 12, 13)) /\ s[14] = ":"
            /\ IsDigits(SubSeq(s, 15, 16)) /\ s[17] = ":"
            /\ IsDigits(SubSeq(s, 18, 19))
            /\ Len(s) = 25 =>
                /\ s[20] \in {"+", "-"}
                /\ IsDigits(SubSeq(s, 21, 22)) /\ s[23] = ":"
                /\ IsDigits(SubSeq(s, 24, 25))
    IN  IF ~shape THEN Unparsed
        ELSE
            LET y  == StrToInt(SubSeq(s, 1, 4))
                m  == StrToInt(SubSeq(s, 6, 7))
                d  == StrToInt(SubSeq(s, 9, 10))
                hh == StrToInt(SubSeq(s, 12, 13))
                mi == StrToInt(SubSeq(s, 15, 16))
                ss == StrToInt(SubSeq(s, 18, 19))
            IN  IF /\ m \in 1..12 /\ d >= 1 /\ ValidDate(y, m, d)
                   /\ hh \in 0..23 /\ mi \in 0..59 /\ ss \in 0..59
                THEN [ok |-> TRUE,
                      dt |-> [Y |-> y, M |-> m, D |-> d, h |-> hh, mi |-> mi, s |-> ss]]
                ELSE Unparsed

-----------------------------------------------------------------------------
(* Results of a call, exceptions, and the texts the tools return *)

Return(text) == [kind |-> "return", value |-> text]

Raise(e) == [kind |-> "raise", exc |-> e]

Exc(type, msg) == [type |-> type, msg |-> msg]

\* The failure markers that open every error text of the tools.
CrossMark == "U+274C"

ErrorWord == "Error"

\* Classes deriving from httpx.TimeoutException.
TimeoutTypes == {"ConnectTimeout", "ReadTimeout"}

\* except httpx.TimeoutException
IsTimeoutException(e) == e.type \in TimeoutTypes

\* a narrower clause: the generic clause narrowed to ValueError and its subclasses
IsExceptionOnlyValueError(e) == e.type \in {"ValueError", "JSONDecodeError"}

\* except Exception: every exception the collaborators and the library raise here
\* derives from Exception
IsException(e) == TRUE

\* dict.get(key, default)
Get(d, key, default) == IF key \in DOMAIN d THEN d[key] ELSE default

-----------------------------------------------------------------------------
(* search_patents *)

PatentPromptHead == "Search for patents and prior art related to: "

PatentPromptTail ==
    <<<<>>,
      <<"Please provide:">>,
      <<"1. Specific US patent numbers (format: US 1,234,567)">>,
      <<"2. International patents (PCT, EPO, CN, JP)">>,
      <<"3. Publication dates">>,
      <<"4. Brief description of the technical approach">>,
      <<"5. Key differences from the query">>,
      <<>>,
      <<"Focus on the most relevant 3-5 patents.">>>>

\* the prompt, a multi-line text
SearchPrompt(query, focus) ==
    IF focus = "patents"
    THEN <<<<PatentPromptHead>> \o query>> \o PatentPromptTail
    ELSE <<<<"Search for technical information about: ">> \o query>>

\* the request client.post sends
SearchRequest(query, focus) ==
    [op |-> "post",
     url |-> "https://api.perplexity.ai/chat/completions",
     model |-> "sonar",
     user |-> SearchPrompt(query, focus),
     timeout |-> 30]

\* response.json(): the body parsed, or JSONDecodeError
ResponseJson(body) ==
    IF body.json THEN Return(body.val)
    ELSE Raise(Exc("JSONDecodeError", <<"Expecting value: line 1 column 1 (char 0)">>))

\* result["choices"][0]["message"]["content"]
ExtractContent(result) ==
    IF "choices" \notin DOMAIN result THEN Raise(Exc("KeyError", <<"'choices'">>))
    ELSE IF Len(result.choices) = 0
    THEN Raise(Exc("IndexError", <<"list index out of range">>))
    ELSE IF "message" \notin DOMAIN result.choices[1]
    THEN Raise(Exc("KeyError", <<"'message'">>))
    ELSE IF "content" \notin DOMAIN result.choices[1].message
    THEN Raise(Exc("KeyError", <<"'content'">>))
    ELSE Return(result.choices[1].message.content)

\* the body of the try block, given the answer to client.post
SearchTry(answer) ==
    IF answer.kind # "response" THEN Raise(answer.exc)
    ELSE IF answer.status = 200
    THEN LET parsed == ResponseJson(answer.body)
         IN  IF parsed.kind = "raise" THEN parsed ELSE ExtractContent(parsed.value)
    ELSE Return(<<<<ErrorWord, ": Perplexity API returned status ">>
                    \o SignedToStr(answer.status)>>)

\* search_patents(query, focus), given the answer to client.post
SearchPatentsResult(query, focus, answer) ==
    LET out == SearchTry(answer)
    IN  IF out.kind = "return" THEN out
        ELSE IF IsTimeoutException(out.exc)
        THEN Return(<<<<ErrorWord, ": Search request timed out. Please try again.">>>>)
        ELSE IF IsException(out.exc)
        THEN Return(<<<<ErrorWord, " searching patents: ">> \o out.exc.msg>>)
        ELSE out

-----------------------------------------------------------------------------
(* get_calendar_service and _sync_schedule_meeting *)

\* get_calendar_service(), given the answer to creds.refresh(Request())
GetCalendarService(refresh) ==
    IF refresh.ok THEN Return("service")
    ELSE Raise(Exc("Exception",
                   <<"Failed to refresh Google credentials: ">> \o refresh.exc.msg))

BusinessTimeZone == "America/New_York"

DefaultDescription ==
    <<<<"IP Intake Meeting - Invention Disclosure Discussion">>,
      <<>>,
      <<"Scheduled via IP Assistant">>>>

\* int(datetime.now().timestamp()) when the clock shows c half seconds
Timestamp(c) == 1762200000 + ((c * 500) \div 1000)

\* f"ip-assistant-{int(datetime.now().timestamp())}"
RequestId(c) == <<"ip-assistant-">> \o IntToStr(Timestamp(c))

\* a faulty variant: the end of the event is the start
EndTimeSameAsStart(start, duration) == start

\* end_dt = start_dt + timedelta(minutes=duration_minutes)
EndTime(start, duration) == AddMinutes(start, duration)

\* the event dictionary
BuildEvent(a, start, end, c) ==
    [summary |-> a.title,
     description |-> IF a.description = <<>> THEN DefaultDescription ELSE a.description,
     start |-> [dateTime |-> IsoFormat(start), timeZone |-> BusinessTimeZone],
     end |-> [dateTime |-> IsoFormat(end), timeZone |-> BusinessTimeZone],
     attendees |-> <<[email |-> a.attendee_email]>>,
     reminders |-> [useDefault |-> FALSE,
                    overrides |-> <<[method |-> "email", minutes |-> 24 * 60],
                                    [method |-> "popup", minutes |-> 30]>>],
     conferenceData |->
        [createRequest |-> [requestId |-> RequestId(c),
                            conferenceSolutionKey |-> [type |-> "hangoutsMeet"]]]]

\* the request service.events().insert(...).execute() sends
InsertRequest(event) ==
    [op |-> "insert", calendarId |-> "primary", body |-> event,
     conferenceDataVersion |-> 1, sendUpdates |-> "all"]

RefreshRequest == [op |-> "refresh"]

\* a request with the answer it got
Answered(request, answer) == [req |-> request, resp |-> answer]

InvalidDateTimeText(date, time) ==
    <<<<CrossMark,
        " Invalid date/time format. Use YYYY-MM-DD for date and HH:MM for time. Got: ">>
        \o date \o <<" ">> \o time>>

ScheduledText(a, start, result) ==
    <<<<"U+2705", " Meeting scheduled successfully!">>,
      <<>>,
      <<"U+1F4C5", " ">> \o a.title,
      <<"U+1F4E7", " Attendee: ">> \o a.attendee_email,
      <<"U+1F550", " ">> \o FmtLongDateTime(start),
      <<"U+23F1", "  Duration: ">> \o SignedToStr(a.duration_minutes) \o <<" minutes">>,
      <<>>,
      <<"U+1F517", " Calendar: ">> \o Get(result, "htmlLink", <<"No calendar link">>),
      <<"U+1F4F9", " Google Meet: ">> \o Get(result, "hangoutLink", <<"No video link">>),
      <<>>,
      <<"Email invitations sent to all attendees.">>>>

ScheduleErrorText(e) ==
    <<<<CrossMark, " Error creating meeting: ">> \o e.msg,
      <<>>,
      <<"Please check that the date/time format is correct and try again.">>>>

\* The body of the try block of _sync_schedule_meeting: the result and the
\* requests made.  env.refresh and env.insert are the collaborators' answers.
ScheduleTry(a, c, env) ==
    LET service == GetCalendarService(env.refresh)
        first   == <<Answered(RefreshRequest, env.refresh)>>
    IN  IF service.kind = "raise" THEN [out |-> service, calls |-> first]
        ELSE
            With(StrptimeDateTime(JoinDateTime(a.date, a.time)), LAMBDA parsed :
            IF ~parsed.ok
            THEN [out |-> Return(InvalidDateTimeText(a.date, a.time)), calls |-> first]
            ELSE
                With(EndTime(parsed.dt, a.duration_minutes), LAMBDA end :
                With(BuildEvent(a, parsed.dt, end, c), LAMBDA event :
                LET both == first \o <<Answered(InsertRequest(event), env.insert)>>
                IN  IF env.insert.ok
                    THEN [out |-> Return(ScheduledText(a, parsed.dt, env.insert.result)),
                          calls |-> both]
                    ELSE [out |-> Raise(env.insert.exc), calls |-> both])))

\* _sync_schedule_meeting(...)
SyncScheduleMeeting(a, c, env) ==
    With(ScheduleTry(a, c, env), LAMBDA r :
        IF r.out.kind = "raise" /\ IsException(r.out.exc)
        THEN [out |-> Return(ScheduleErrorText(r.out.exc)), calls |-> r.calls]
        ELSE r)

-----------------------------------------------------------------------------
(* _sync_find_available_times *)

\* target_date.replace(hour=h, minute=0, second=0)
ReplaceHour(dt, hh) == [dt EXCEPT !.h = hh, !.mi = 0, !.s = 0]

StartOfDay(target) == ReplaceHour(target, 9)

EndOfDay(target) == ReplaceHour(target, 17)

\* start_of_day.isoformat() + 'Z'
WithZ(dt) == IsoFormat(dt) \o <<"Z">>

\* the request service.events().list(...).execute() sends for one day
DayListRequest(target) ==
    [op |-> "list", calendarId |-> "primary",
     timeMin |-> WithZ(StartOfDay(target)), timeMax |-> WithZ(EndOfDay(target)),
     singleEvents |-> TRUE, orderBy |-> "startTime"]

InvalidDateText(date) ==
    <<<<CrossMark, " Invalid date format. Use YYYY-MM-DD. Got: ">> \o date>>

FullyAvailableText(target, duration) ==
    <<<<"U+2705", " Fully available on ">> \o FmtLongDate(target),
      <<>>,
      <<"Available slots (business hours 9 AM - 5 PM):">>,
      <<"- 9:00 AM - 5:00 PM (entire day open)">>,
      <<>>,
      <<"Recommended times for ">> \o SignedToStr(duration) \o <<"-minute meeting:">>,
      <<"- 10:00 AM">>,
      <<"- 2:00 PM">>,
      <<"- 3:00 PM">>>>

\* event['start'].get('dateTime', event['start'].get('date'))
StartOf(event) == Get(event.start, "dateTime", Get(event.start, "date", <<>>))

EndOf(event) == Get(event.end, "dateTime", Get(event.end, "date", <<>>))

\* a faulty variant: the line of a timed event shows its start twice
BusySlotStartOnly(event) ==
    LET summary == Get(event, "summary", <<"Busy">>)
    IN  IF HasT(StartOf(event))
        THEN LET st == FromIsoFormat(ReplaceZ(StartOf(event)))
             IN  IF ~st.ok THEN Raise(Exc("ValueError", <<"Invalid isoformat string">>))
                 ELSE Return(<<"U+2022", " ">> \o FmtTime12(st.dt) \o <<" - ">>
                                \o FmtTime12(st.dt) \o <<": ">> \o summary)
        ELSE Return(<<"U+2022", " All day: ">> \o summary)

\* one pass of the loop over events: the line appended, or ValueError
BusySlot(event) ==
    LET summary == Get(event, "summary", <<"Busy">>)
    IN  IF HasT(StartOf(event))
        THEN LET st == FromIsoFormat(ReplaceZ(StartOf(event)))
                 en == FromIsoFormat(ReplaceZ(EndOf(event)))
             IN  IF ~st.ok \/ ~en.ok
                 THEN Raise(Exc("ValueError", <<"Invalid isoformat string">>))
                 ELSE Return(<<"U+2022", " ">> \o FmtTime12(st.dt) \o <<" - ">>
                                \o FmtTime12(en.dt) \o <<": ">> \o summary)
        ELSE Return(<<"U+2022", " All day: ">> \o summary)

\* the loop over events: busy_slots, or the first exception
BusySlots(events) ==
    With([i \in 1..Len(events) |-> BusySlot(events[i])], LAMBDA slots :
        IF \E i \in 1..Len(slots) : slots[i].kind = "raise"
        THEN slots[CHOOSE i \in 1..Len(slots) :
                    /\ slots[i].kind = "raise"
                    /\ \A j \in 1..(i - 1) : slots[j].kind = "return"]
        ELSE Return([i \in 1..Len(slots) |-> slots[i].value]))

BusyText(target, duration, slots) ==
    <<<<"U+1F4C5", " Schedule for ">> \o FmtLongDate(target) \o <<":">>,
      <<>>,
      <<"Busy times:">>>>
    \o slots \o
    <<<<>>,
      <<"U+1F4A1", " Look for ">> \o SignedToStr(duration)
          \o <<"-minute gaps between meetings for scheduling.">>>>

\* The body of the try block of _sync_find_available_times.
FindTry(a, env) ==
    LET service == GetCalendarService(env.refresh)
        first   == <<Answered(RefreshRequest, env.refresh)>>
    IN  IF service.kind = "raise" THEN [out |-> service, calls |-> first]
        ELSE
            With(StrptimeDate(a.date), LAMBDA parsed :
            IF ~parsed.ok
            THEN [out |-> Return(InvalidDateText(a.date)), calls |-> first]
            ELSE
                LET target == parsed.dt
                    both   == first \o <<Answered(DayListRequest(target), env.list)>>
                    events == Get(env.list.result, "items", <<>>)
                IN  IF ~env.list.ok
                    THEN [out |-> Raise(env.list.exc), calls |-> both]
                    ELSE IF Len(events) = 0
                    THEN [out |-> Return(FullyAvailableText(target, a.duration_minutes)),
                          calls |-> both]
                    ELSE
                        With(BusySlots(events), LAMBDA slots :
                        IF slots.kind = "raise"
                        THEN [out |-> slots, calls |-> both]
                        ELSE [out |-> Return(BusyText(target, a.duration_minutes,
                                                      slots.value)),
                              calls |-> both]))

FindErrorText(e) == <<<<CrossMark, " Error checking availability: ">> \o e.msg>>

\* _sync_find_available_times(date, duration_minutes)
SyncFindAvailableTimes(a, env) ==
    With(FindTry(a, env), LAMBDA r :
        IF r.out.kind = "raise" /\ IsException(r.out.exc)
        THEN [out |-> Return(FindErrorText(r.out.exc)), calls |-> r.calls]
        ELSE r)

-----------------------------------------------------------------------------
(* _sync_list_upcoming_meetings *)

\* datetime.utcnow() when the clock shows c half seconds: the server started at
\* 2025-11-03 20:00:00 UTC
UtcNow(c) ==
    LET secs == (c * 500) \div 1000
        base == DateTime(2025, 11, 3, 20, 0)
        at   == AddMinutes(base, secs \div 60)
    IN  [dt |-> [at EXCEPT !.s = secs % 60], micro |-> ((c * 500) % 1000) * 1000]

\* isoformat() of a datetime with microseconds, + 'Z'
IsoMicroZ(dt, micro) ==
    IsoFormat(dt) \o (IF micro = 0 THEN <<>> ELSE <<".">> \o ZeroPad(micro, 6)) \o <<"Z">>

\* the request service.events().list(...).execute() sends for the coming days
UpcomingListRequest(c, days) ==
    LET now == UtcNow(c)
    IN  [op |-> "list", calendarId |-> "primary",
         timeMin |-> IsoMicroZ(now.dt, now.micro),
         timeMax |-> IsoMicroZ(AddMinutes(now.dt, days * 1440), now.micro),
         maxResults |-> 20, singleEvents |-> TRUE, orderBy |-> "startTime"]

NoMeetingsText(days) ==
    <<<<"U+1F4ED", " No upcoming meetings in the next ">> \o SignedToStr(days)
        \o <<" days.">>>>

\* f"  * {time_str}: {summary}"
MeetingLine(dt, summary) ==
    <<"  ", "U+2022", " ">> \o FmtTime12(dt) \o <<": ">> \o summary

\* a faulty variant: every meeting opens a group of its own
GroupAppendAlwaysNew(groups, key, line) == Append(groups, [key |-> key, lines |-> <<line>>])

\* meetings_by_date[date_key].append(line), the key created when it is new;
\* the dictionary keeps its keys in the order they were first inserted
GroupAppend(groups, key, line) ==
    IF \E i \in 1..Len(groups) : groups[i].key = key
    THEN [i \in 1..Len(groups) |->
            IF groups[i].key = key
            THEN [groups[i] EXCEPT !.lines = Append(@, line)]
            ELSE groups[i]]
    ELSE Append(groups, [key |-> key, lines |-> <<line>>])

RECURSIVE GroupByDate(_, _)
\* the loop over events: meetings_by_date, or the first exception
GroupByDate(events, groups) ==
    IF Len(events) = 0 THEN Return(groups)
    ELSE
        LET event   == Head(events)
            start   == StartOf(event)
            summary == Get(event, "summary", <<"No title">>)
        IN  IF HasT(start)
            THEN With(FromIsoFormat(ReplaceZ(start)), LAMBDA p :
                    IF ~p.ok
                    THEN Raise(Exc("ValueError", <<"Invalid isoformat string">>))
                    ELSE With(GroupAppend(groups, FmtDayKey(p.dt),
                                          MeetingLine(p.dt, summary)),
                              LAMBDA appended : GroupByDate(Tail(events), appended)))
            ELSE GroupByDate(Tail(events), groups)

RECURSIVE GroupLines(_)
\* the loop over meetings_by_date.items(): header, meetings, empty line
GroupLines(groups) ==
    IF Len(groups) = 0 THEN <<>>
    ELSE <<Head(groups).key \o <<":">>>> \o Head(groups).lines \o <<<<>>>>
            \o GroupLines(Tail(groups))

\* "\n".join(output): the first element ends in a newline of its own
UpcomingText(days, groups) ==
    <<<<"U+1F4C5", " Upcoming meetings (next ">> \o SignedToStr(days) \o <<" days):">>,
      <<>>>>
    \o GroupLines(groups)

\* The body of the try block of _sync_list_upcoming_meetings.
ListTry(a, c, env) ==
    LET service == GetCalendarService(env.refresh)
        first   == <<Answered(RefreshRequest, env.refresh)>>
    IN  IF service.kind = "raise" THEN [out |-> service, calls |-> first]
        ELSE
            LET both == first \o <<Answered(UpcomingListRequest(c, a.days_ahead),
                                            env.list)>>
            IN  IF ~env.list.ok
                THEN [out |-> Raise(env.list.exc), calls |-> both]
                ELSE
                    LET events == Get(env.list.result, "items", <<>>)
                    IN  IF Len(events) = 0
                        THEN [out |-> Return(NoMeetingsText(a.days_ahead)),
                              calls |-> both]
                        ELSE
                            With(GroupByDate(events, <<>>), LAMBDA groups :
                            IF groups.kind = "raise"
                            THEN [out |-> groups, calls |-> both]
                            ELSE [out |-> Return(UpcomingText(a.days_ahead,
                                                              groups.value)),
                                  calls |-> both])

ListErrorText(e) == <<<<CrossMark, " Error listing meetings: ">> \o e.msg>>

\* _sync_list_upcoming_meetings(days_ahead)
SyncListUpcomingMeetings(a, c, env) ==
    With(ListTry(a, c, env), LAMBDA r :
        IF r.out.kind = "raise" /\ IsException(r.out.exc)
        THEN [out |-> Return(ListErrorText(r.out.exc)), calls |-> r.calls]
        ELSE r)

-----------------------------------------------------------------------------
(* The callers' arguments and the collaborators' answers *)

ScheduleDates ==
    {<<"2", "0", "2", "5", "-", "0", "6", "-", "1", "0">>,
     <<"2", "0", "2", "4", "-", "1", "2", "-", "3", "1">>,
     <<"1", "3", "-", "0", "6", "-", "2", "0", "2", "5">>,
     <<"2", "0", "2", "5", "-", "0", "2", "-", "3", "0">>}

ScheduleTimes ==
    {<<"1", "4", ":", "0", "0">>,
     <<"2", "3", ":", "3", "0">>,
     <<"2", "5", ":", "0", "0">>,
     <<"2", "p", "m">>}

Durations == {60, 30, 0, -30}

Titles == {<<"Invention disclosure">>, <<"Prior art review">>}

Attendees == {<<"paul.focke@daimler.com">>, <<"engineer@daimler.com">>}

Descriptions == {<<>>, <<<<"Adaptive cooling fins">>>>}

ScheduleArgs ==
    [title : Titles, attendee_email : Attendees, date : ScheduleDates,
     time : ScheduleTimes, duration_minutes : Durations, description : Descriptions]

FindArgs == [date : ScheduleDates, duration_minutes : Durations]

DaysAhead == {1, 7, 2200}

ListArgs == [days_ahead : DaysAhead]

SearchArgs == [query : {<<"adaptive cooling fins">>}, focus : {"patents", "research"}]

\* creds.refresh(Request()) answers or raises
RefreshAnswers ==
    {[ok |-> TRUE],
     [ok |-> FALSE,
      exc |-> Exc("RefreshError", <<"invalid_grant: Token has been expired or revoked.">>)]}

\* events().insert(...).execute() answers with the event created, or raises
InsertAnswers ==
    {[ok |-> TRUE,
      result |-> [htmlLink |-> <<"https://www.google.com/calendar/event?eid=1">>,
                  hangoutLink |-> <<"https://meet.google.com/abc-defg-hij">>]],
     [ok |-> TRUE,
      result |-> [htmlLink |-> <<"https://www.google.com/calendar/event?eid=1">>]],
     [ok |-> FALSE, exc |-> Exc("HttpError", <<"HttpError 403: Rate Limit Exceeded">>)]}

\* How the calendar writes the time of an event: with the offset of its zone,
\* or with Z when the calendar is kept in UTC.
OffsetStyles == {<<"-", "0", "5", ":", "0", "0">>, <<"Z">>}

\* An event as the calendar holds it: the day, all day or from h:mi for dur
\* minutes, with or without a title.
Held(y, m, d, allDay, hh, mi, dur, titled, summary) ==
    [at |-> DateTime(y, m, d, hh, mi), allDay |-> allDay, dur |-> dur,
     titled |-> titled, summary |-> summary]

\* The event resource the calendar sends for a held event.
EventResource(e, style) ==
    LET times ==
            IF e.allDay
            THEN [start |-> [date |-> IsoDate(e.at)],
                  end |-> [date |-> IsoDate(AddMinutes(e.at, 1440))]]
            ELSE [start |-> [dateTime |-> IsoFormat(e.at) \o style,
                             timeZone |-> BusinessTimeZone],
                  end |-> [dateTime |-> IsoFormat(AddMinutes(e.at, e.dur)) \o style,
                           timeZone |-> BusinessTimeZone]]
    IN  IF e.titled
        THEN [start |-> times.start, end |-> times.end, summary |-> e.summary]
        ELSE times

\* orderBy=startTime: an all-day event starts at 00:00 of its day
StartKey(e) == IF e.allDay THEN WallMinutes(ReplaceHour(e.at, 0)) ELSE WallMinutes(e.at)

RECURSIVE ByStartTime(_)
\* the held events of a set, ordered by start time ascending
ByStartTime(S) ==
    IF S = {} THEN <<>>
    ELSE With(CHOOSE e \in S : \A f \in S : StartKey(e) <= StartKey(f),
              LAMBDA first : <<first>> \o ByStartTime(S \ {first}))

\* the resources of a sequence of held events
Resources(held, style) == [i \in 1..Len(held) |-> EventResource(held[i], style)]

\* What the calendar holds on the day asked about.
HeldOnDay(t) ==
    {Held(t.Y, t.M, t.D, FALSE, 10, 0, 60, TRUE, <<"Standup">>),
     Held(t.Y, t.M, t.D, FALSE, 12, 30, 45, FALSE, <<>>),
     Held(t.Y, t.M, t.D, TRUE, 0, 0, 1440, TRUE, <<"Trade fair">>),
     Held(t.Y, t.M, t.D, FALSE, 15, 0, 120, TRUE, <<"Patent review">>)}

\* What the calendar holds in the years after the server started.
HeldUpcoming ==
    {Held(2025, 11, 4, FALSE, 10, 0, 60, TRUE, <<"Standup">>),
     Held(2025, 11, 4, FALSE, 15, 0, 30, FALSE, <<>>),
     Held(2025, 11, 5, TRUE, 0, 0, 1440, TRUE, <<"Trade fair">>),
     Held(2025, 11, 5, FALSE, 9, 0, 60, TRUE, <<"Patent review">>),
     Held(2025, 11, 6, TRUE, 0, 0, 1440, FALSE, <<>>),
     Held(2031, 11, 4, FALSE, 11, 0, 60, TRUE, <<"Patent renewal">>)}

\* The held events that start within the window [now, now + days].
InWindow(S, c, days) ==
    {e \in S : /\ StartKey(e) >= WallMinutes(ReplaceHour(UtcNow(c).dt, 0))
               /\ StartKey(e) <= WallMinutes(UtcNow(c).dt) + days * 1440}

ListFailure == [ok |-> FALSE, exc |-> Exc("HttpError", <<"HttpError 500: Backend Error">>)]

\* events().list(...).execute() answers with at most MaxEvents of the held
\* events, ordered by start time, or with no items key at all, or raises
ListAnswers(S) ==
    {ListFailure, [ok |-> TRUE, result |-> [kind |-> "calendar#events"]]}
    \cup
    {[ok |-> TRUE,
      result |-> [kind |-> "calendar#events",
                  items |-> Resources(ByStartTime(T), style)]] :
        T \in {U \in SUBSET S : Cardinality(U) <= MaxEvents}, style \in OffsetStyles}

\* the day find_available_times asks about, when its date parses
DayAsked(a) == IF StrptimeDate(a.date).ok THEN HeldOnDay(StrptimeDate(a.date).dt) ELSE {}

\* The bodies the search API may send with a 200.
SearchBodies ==
    {[json |-> FALSE],
     [json |-> TRUE, val |-> [error |-> <<"unavailable">>]],
     [json |-> TRUE, val |-> [choices |-> <<>>]],
     [json |-> TRUE, val |-> [choices |-> <<[index |-> 0]>>]],
     [json |-> TRUE, val |-> [choices |-> <<[message |-> [role |-> "assistant"]]>>]],
     [json |-> TRUE,
      val |-> [choices |-> <<[message |-> [role |-> "assistant",
                                           content |-> <<<<"US 9,876,543 (2019)">>>>]]>>]]}

StatusCodes == {200, 401, 429, 500}

\* client.post(...) answers with a response, times out, or fails in transport
PostAnswers ==
    {[kind |-> "raise", exc |-> Exc("ReadTimeout", <<>>)],
     [kind |-> "raise", exc |-> Exc("ConnectError", <<"All connection attempts failed">>)]}
    \cup
    {[kind |-> "response", status |-> st, body |-> b] :
        st \in StatusCodes, b \in SearchBodies}

-----------------------------------------------------------------------------
(* One tool call after another: each action is a whole tool call *)

NoCall == [tool |-> "none"]

Init ==
    /\ pc = "idle"
    /\ tool = "none"
    /\ args = NoCall
    /\ calls = <<>>
    /\ ret = NoCall
    /\ clock = 0
    /\ thr = <<>>
    /\ loop = 0
    /\ submitted = {}
    /\ delivered = <<>>
    /\ nextId = 0

others == <<clock, thr, loop, submitted, delivered, nextId>>

\* search_patents(query, focus)
SearchPatents ==
    /\ pc = "idle"
    /\ \E a \in SearchArgs, answer \in PostAnswers :
        /\ tool' = "search_patents"
        /\ args' = a
        /\ calls' = <<Answered(SearchRequest(a.query, a.focus), answer)>>
        /\ ret' = SearchPatentsResult(a.query, a.focus, answer)
    /\ pc' = "done"
    /\ UNCHANGED others

\* schedule_meeting(...): await asyncio.to_thread(_sync_schedule_meeting, ...)
ScheduleMeeting ==
    /\ pc = "idle"
    /\ \E a \in ScheduleArgs, refresh \in RefreshAnswers, insert \in InsertAnswers :
        \E r \in {SyncScheduleMeeting(a, clock, [refresh |-> refresh, insert |-> insert])} :
            /\ tool' = "schedule_meeting"
            /\ args' = a
            /\ calls' = r.calls
            /\ ret' = r.out
    /\ pc' = "done"
    /\ UNCHANGED others

\* find_available_times(...): await asyncio.to_thread(_sync_find_available_times, ...)
FindAvailableTimes ==
    /\ pc = "idle"
    /\ \E a \in FindArgs, refresh \in RefreshAnswers :
        \E list \in ListAnswers(DayAsked(a)) :
            \E r \in {SyncFindAvailableTimes(a, [refresh |-> refresh, list |-> list])} :
                /\ tool' = "find_available_times"
                /\ args' = a
                /\ calls' = r.calls
                /\ ret' = r.out
    /\ pc' = "done"
    /\ UNCHANGED others

\* list_upcoming_meetings(...): await asyncio.to_thread(_sync_list_upcoming_meetings, ...)
ListUpcomingMeetings ==
    /\ pc = "idle"
    /\ \E a \in ListArgs, refresh \in RefreshAnswers :
        \E list \in ListAnswers(InWindow(HeldUpcoming, clock, a.days_ahead)) :
            \E r \in {SyncListUpcomingMeetings(
                           a, clock, [refresh |-> refresh, list |-> list])} :
                /\ tool' = "list_upcoming_meetings"
                /\ args' = a
                /\ calls' = r.calls
                /\ ret' = r.out
    /\ pc' = "done"
    /\ UNCHANGED others

\* The result goes back to the caller; nothing of the call is kept.
Respond ==
    /\ pc = "done"
    /\ pc' = "idle"
    /\ tool' = "none"
    /\ args' = NoCall
    /\ calls' = <<>>
    /\ ret' = NoCall
    /\ UNCHANGED others

Next ==
    \/ SearchPatents
    \/ ScheduleMeeting
    \/ FindAvailableTimes
    \/ ListUpcomingMeetings
    \/ Respond

Spec == Init /\ [][Next]_vars

-----------------------------------------------------------------------------
(* The server: an event loop, the worker threads of asyncio.to_thread, a clock *)

CalendarTools == {"schedule_meeting", "find_available_times", "list_upcoming_meetings"}

\* a faulty variant: the blocking helper is called in the coroutine itself
DispatchInline(name) == "loop"

\* Where the body of a tool runs: the three calendar tools hand their blocking
\* helper to a worker thread with asyncio.to_thread; search_patents and the
\* health resource run on the event loop and never block it.
Dispatch(name) == IF name \in CalendarTools THEN "worker" ELSE "loop"

\* The arguments of the calls of the server model.
ServerArgs(name) ==
    IF name = "schedule_meeting"
    THEN {a \in ScheduleArgs :
            /\ a.title = <<"Invention disclosure">>
            /\ a.attendee_email = <<"paul.focke@daimler.com">>
            /\ a.time = <<"1", "4", ":", "0", "0">>
            /\ a.date = <<"2", "0", "2", "5", "-", "0", "6", "-", "1", "0">>
            /\ a.duration_minutes = 60
            /\ a.description = <<>>}
    ELSE IF name = "find_available_times"
    THEN {a \in FindArgs :
            /\ a.date = <<"2", "0", "2", "5", "-", "0", "6", "-", "1", "0">>
            /\ a.duration_minutes = 60}
    ELSE IF name = "list_upcoming_meetings"
    THEN {a \in ListArgs : a.days_ahead = 7}
    ELSE {a \in SearchArgs : a = CHOOSE b \in SearchArgs : TRUE}

\* The answers of the calendar to the request of a tool, in the server model.
ApiAnswers(name) ==
    IF name = "schedule_meeting" THEN {i \in InsertAnswers : "hangoutLink" \notin
                                            DOMAIN Get(i, "result", <<>>)}
    ELSE IF name = "search_patents"
    THEN {p \in PostAnswers :
            \/ p.kind = "raise" /\ p.exc.type = "ReadTimeout"
            \/ /\ p.kind = "response"
               /\ p.body.json
               /\ \/ p.status = 200 /\ "choices" \in DOMAIN p.body.val
                                    /\ ExtractContent(p.body).kind = "return"
                  \/ p.status = 500 /\ "error" \in DOMAIN p.body.val}
    ELSE ListAnswers({})

\* _sync_schedule_meeting, _sync_find_available_times or
\* _sync_list_upcoming_meetings, as the worker runs it
SyncHelper(name, a, c, refresh, api) ==
    IF name = "schedule_meeting"
    THEN SyncScheduleMeeting(a, c, [refresh |-> refresh, insert |-> api])
    ELSE IF name = "find_available_times"
    THEN SyncFindAvailableTimes(a, [refresh |-> refresh, list |-> api])
    ELSE SyncListUpcomingMeetings(a, c, [refresh |-> refresh, list |-> api])

\* the helper goes on to a calendar request after this answer to the refresh
ReachesApi(name, a, c, refresh) ==
    Len(SyncHelper(name, a, c, refresh, ListFailure).calls) > 1

NoAnswer == [none |-> TRUE]

\* health_check(): the status of the configuration
HealthText(hasKey, hasToken) ==
    <<<<"U+1F3E5", " Health Status">>,
      <<>>,
      <<"Perplexity API: ",
        IF hasKey THEN "U+2705 Connected" ELSE "U+274C API key missing">>,
      <<"Google Calendar: ",
        IF hasToken THEN "U+2705 Configured" ELSE "U+274C Not authenticated">>,
      <<>>,
      <<"Server: Running">>,
      <<"Transport: SSE (Server-Sent Events)">>,
      <<>>>>

\* datetime.now() in _sync_schedule_meeting, datetime.utcnow() in
\* _sync_list_upcoming_meetings
ReadsClock(name) == name \in {"schedule_meeting", "list_upcoming_meetings"}

\* A call: its tool and arguments, where its coroutine or helper stands, the
\* locals of a helper that is running (the clock value it read, the answer
\* to its refresh), and the text returned once it has finished.
Job(name, a, at) ==
    [tool |-> name, args |-> a, at |-> at, runner |-> Dispatch(name), c |-> 0,
     refresh |-> NoAnswer, result |-> NoCall]

\* calls whose helper holds a worker thread
OnWorker == {i \in 1..Len(thr) : thr[i].runner = "worker" /\ thr[i].at \in {"refresh", "api"}}

unserved == <<pc, tool, args, calls, ret>>

\* A calendar tool is called: the coroutine hands the helper to the executor
\* and awaits it.  (Were the helper called in the coroutine, the event-loop
\* thread would enter it at once.)
AcceptCalendarCall ==
    /\ loop = 0
    /\ nextId < MaxCalls
    /\ \E name \in CalendarTools :
        \E a \in ServerArgs(name) :
            /\ thr' = Append(thr, Job(name, a,
                                 IF Dispatch(name) = "worker" THEN "queued" ELSE "refresh"))
            /\ loop' = IF Dispatch(name) = "worker" THEN 0 ELSE nextId + 1
    /\ delivered' = Append(delivered, NoCall)
    /\ nextId' = nextId + 1
    /\ UNCHANGED <<clock, submitted, unserved>>

\* search_patents is called: the coroutine posts the request and awaits the
\* response without blocking.
AcceptSearch ==
    /\ loop = 0
    /\ nextId < MaxCalls
    /\ \E a \in ServerArgs("search_patents") : thr' = Append(thr, [Job("search_patents", a, "http")
                                                  EXCEPT !.runner = "loop"])
    /\ delivered' = Append(delivered, NoCall)
    /\ nextId' = nextId + 1
    /\ UNCHANGED <<clock, loop, submitted, unserved>>

\* The health resource is read: answered on the event loop at once.
HealthCheck ==
    /\ loop = 0
    /\ nextId < MaxCalls
    /\ thr' = Append(thr, [Job("health", NoCall, "delivered") EXCEPT !.runner = "loop"])
    /\ delivered' = Append(delivered, Return(HealthText(TRUE, TRUE)))
    /\ nextId' = nextId + 1
    /\ UNCHANGED <<clock, loop, submitted, unserved>>

\* A free worker thread takes a queued helper and enters get_calendar_service.
WorkerStart(i) ==
    /\ thr[i].at = "queued"
    /\ Cardinality(OnWorker) < MaxWorkers
    /\ thr' = [thr EXCEPT ![i].at = "refresh"]
    /\ UNCHANGED <<clock, loop, submitted, delivered, nextId, unserved>>

\* creds.refresh returns or raises.  The helper reads the clock, and either
\* ends here (refresh failed, date not parsed) or enters the calendar request.
RefreshReturns(i) ==
    /\ thr[i].at = "refresh"
    /\ \E refresh \in RefreshAnswers :
        IF ReachesApi(thr[i].tool, thr[i].args, clock, refresh)
        THEN /\ thr' = [thr EXCEPT ![i].at = "api",
                                   ![i].c = IF ReadsClock(thr[i].tool) THEN clock ELSE 0,
                                   ![i].refresh = refresh]
             /\ submitted' =
                    IF thr[i].tool = "schedule_meeting"
                    THEN submitted \cup {<<i, RequestId(clock)>>}
                    ELSE submitted
             /\ loop' = loop
        ELSE /\ \E r \in {SyncHelper(thr[i].tool, thr[i].args, clock, refresh,
                                     ListFailure)} :
                    thr' = [thr EXCEPT ![i].at = "finished", ![i].result = r.out]
             /\ submitted' = submitted
             /\ loop' = IF loop = i THEN 0 ELSE loop
    /\ UNCHANGED <<clock, delivered, nextId, unserved>>

\* The calendar request returns or raises, and the helper returns its text.
ApiReturns(i) ==
    /\ thr[i].at = "api"
    /\ \E api \in ApiAnswers(thr[i].tool) :
        \E r \in {SyncHelper(thr[i].tool, thr[i].args, thr[i].c, thr[i].refresh, api)} :
            thr' = [thr EXCEPT ![i].at = "finished", ![i].c = 0,
                               ![i].refresh = NoAnswer, ![i].result = r.out]
    /\ loop' = IF loop = i THEN 0 ELSE loop
    /\ UNCHANGED <<clock, submitted, delivered, nextId, unserved>>

\* The search response arrives; the event loop resumes the coroutine, which
\* returns its text to the caller.
HttpReturns(i) ==
    /\ loop = 0
    /\ thr[i].at = "http"
    /\ \E answer \in ApiAnswers("search_patents") :
        \E r \in {SearchPatentsResult(thr[i].args.query, thr[i].args.focus, answer)} :
            /\ thr' = [thr EXCEPT ![i].at = "delivered", ![i].result = r]
            /\ delivered' = [delivered EXCEPT ![i] = r]
    /\ UNCHANGED <<clock, loop, submitted, nextId, unserved>>

\* The helper has returned; the event loop resumes the awaiting coroutine,
\* which returns the text to its caller.
Deliver(i) ==
    /\ loop = 0
    /\ thr[i].at = "finished"
    /\ thr' = [thr EXCEPT ![i].at = "delivered"]
    /\ delivered' = [delivered EXCEPT ![i] = thr[i].result]
    /\ UNCHANGED <<clock, loop, submitted, nextId, unserved>>

\* Half a second passes.
Tick ==
    /\ clock < MaxClock
    /\ clock' = clock + 1
    /\ UNCHANGED <<thr, loop, submitted, delivered, nextId, unserved>>

ServerNext ==
    \/ AcceptCalendarCall
    \/ AcceptSearch
    \/ HealthCheck
    \/ \E i \in 1..Len(thr) : WorkerStart(i)
    \/ \E i \in 1..Len(thr) : RefreshReturns(i)
    \/ \E i \in 1..Len(thr) : ApiReturns(i)
    \/ \E i \in 1..Len(thr) : HttpReturns(i)
    \/ \E i \in 1..Len(thr) : Deliver(i)
    \/ Tick

ServerSpec == Init /\ [][ServerNext]_vars

-----------------------------------------------------------------------------
(* Vocabulary of the properties *)

\* the requests of one kind made by the call, with their answers
CallsTo(op) == SelectSeq(calls, LAMBDA c : c.req.op = op)

Done(name) == pc = "done" /\ tool = name

\* the text that crossed the tool boundary, as one run of atoms
ReturnedAtoms == Flatten(ret.value)

BeginsWithFailureMarker ==
    /\ ret.kind = "return"
    /\ Len(ReturnedAtoms) > 0
    /\ ReturnedAtoms[1] \in {CrossMark, ErrorWord}

\* a 200 body that carries choices[0].message.content
CarriesContent(body) ==
    /\ body.json
    /\ "choices" \in DOMAIN body.val
    /\ Len(body.val.choices) > 0
    /\ "message" \in DOMAIN body.val.choices[1]
    /\ "content" \in DOMAIN body.val.choices[1].message

\* the answer to a request is one of the failure kinds: a refresh or calendar
\* API failure, a search timeout or transport fault, a non-200 status, a
\* malformed 200 body
IsFailure(c) ==
    IF c.req.op = "post"
    THEN \/ c.resp.kind = "raise"
         \/ c.resp.status # 200
         \/ ~CarriesContent(c.resp.body)
    ELSE ~c.resp.ok

SomeFailure == \E i \in 1..Len(calls) : IsFailure(calls[i])

\* the date and time arguments are written YYYY-MM-DD and HH:MM and name a
\* real minute
WellFormedDateTime(a) ==
    /\ Len(a.date) = 10 /\ Len(a.time) = 5
    /\ StrptimeDateTime(JoinDateTime(a.date, a.time)).ok

\* minutes between the wall-clock values two ISO texts show
MinutesBetween(from, to) ==
    WallMinutes(FromIsoFormat(to).dt) - WallMinutes(FromIsoFormat(from).dt)

-----------------------------------------------------------------------------
(* C1 *)

\* C1: every call of the four tools ends by returning a text, never by an
\* exception crossing the tool boundary; when a collaborator failed (credential
\* refresh, calendar API, search timeout, transport fault, non-200 status,
\* malformed 200 body) the text begins with a failure marker, and for a
\* non-200 search response it contains the status code.
FailuresReturnMarkedText ==
    pc = "done" =>
        /\ ret.kind = "return"
        /\ SomeFailure => BeginsWithFailureMarker
        /\ \A i \in 1..Len(calls) :
            (/\ calls[i].req.op = "post"
             /\ calls[i].resp.kind = "response"
             /\ calls[i].resp.status # 200)
            => Contains(ReturnedAtoms, IntToStr(calls[i].resp.status))

\* a search call whose 200 body lacks the content came back as a marked text
MalformedBodyReported ==
    /\ Done("search_patents")
    /\ calls[1].resp.kind = "response"
    /\ calls[1].resp.status = 200
    /\ calls[1].resp.body.json
    /\ ~CarriesContent(calls[1].resp.body)
    /\ BeginsWithFailureMarker

-----------------------------------------------------------------------------
(* C2 *)

\* C2: a schedule_meeting call whose date and time do not parse returns a
\* message containing the date and the time as received, and makes no request
\* to the credential provider or the calendar.
UnparsedDateEchoedWithoutCalls ==
    (Done("schedule_meeting")
     /\ ~StrptimeDateTime(JoinDateTime(args.date, args.time)).ok)
    => /\ ret.kind = "return"
       /\ Contains(ReturnedAtoms, args.date)
       /\ Contains(ReturnedAtoms, args.time)
       /\ calls = <<>>

-----------------------------------------------------------------------------
(* C4 *)

\* minutes to add to New York wall-clock time to get UTC: EDT and EST
NewYorkUtcOffsets == {240, 300}

\* the instant an RFC 3339 text ending in Z denotes, in minutes of UTC
InstantOfZ(text) == WallMinutes(FromIsoFormat(ReplaceZ(text)).dt)

\* C4: the timeMin and timeMax find_available_times sends denote 09:00 and
\* 17:00 of the requested day in America/New_York, the zone schedule_meeting
\* annotates its times with.
WindowIsNewYorkBusinessHours ==
    Done("find_available_times") =>
        \A i \in 1..Len(calls) :
            calls[i].req.op = "list" =>
                LET day == StrptimeDate(args.date).dt
                IN  \E off \in NewYorkUtcOffsets :
                        /\ InstantOfZ(calls[i].req.timeMin)
                            = WallMinutes(ReplaceHour(day, 9)) + off
                        /\ InstantOfZ(calls[i].req.timeMax)
                            = WallMinutes(ReplaceHour(day, 17)) + off

-----------------------------------------------------------------------------
(* C5 *)

\* C5: a schedule_meeting call with well-formed date and time whose credential
\* refresh succeeds makes exactly one insert request; its event starts at the
\* date and time given, ends duration_minutes later, both in the business time
\* zone, is titled with the title and has the attendee as its only attendee.
\* 2025-06-10 14:00 for 60 minutes gives 14:00 to 15:00 on that day.
OneInsertWithTheRequestedEvent ==
    (Done("schedule_meeting") /\ WellFormedDateTime(args) /\ calls[1].resp.ok)
    => /\ Len(CallsTo("insert")) = 1
       /\ LET event == CallsTo("insert")[1].req.body
          IN  /\ event.start.dateTime
                    = args.date \o <<"T">> \o args.time \o <<":", "0", "0">>
              /\ MinutesBetween(event.start.dateTime, event.end.dateTime)
                    = args.duration_minutes
              /\ event.start.timeZone = BusinessTimeZone
              /\ event.end.timeZone = BusinessTimeZone
              /\ event.summary = args.title
              /\ event.attendees = <<[email |-> args.attendee_email]>>
              /\ (/\ args.date = <<"2", "0", "2", "5", "-", "0", "6", "-", "1", "0">>
                  /\ args.time = <<"1", "4", ":", "0", "0">>
                  /\ args.duration_minutes = 60)
                 => event.end.dateTime
                      = <<"2", "0", "2", "5", "-", "0", "6", "-", "1", "0", "T",
                          "1", "5", ":", "0", "0", ":", "0", "0">>

\* the meeting of 2025-06-10 14:00 for 60 minutes was inserted
HourLongMeetingInserted ==
    /\ Done("schedule_meeting")
    /\ args.date = <<"2", "0", "2", "5", "-", "0", "6", "-", "1", "0">>
    /\ args.time = <<"1", "4", ":", "0", "0">>
    /\ args.duration_minutes = 60
    /\ Len(CallsTo("insert")) = 1
    /\ CallsTo("insert")[1].resp.ok
    /\ ret.kind = "return"

-----------------------------------------------------------------------------
(* C9 *)

\* C9: every event handed to insert ends strictly after it starts; a call with
\* duration_minutes <= 0 is rejected with a message and inserts nothing.
NonPositiveDurationRejected ==
    Done("schedule_meeting") =>
        /\ \A i \in 1..Len(calls) :
            calls[i].req.op = "insert" =>
                MinutesBetween(calls[i].req.body.start.dateTime,
                               calls[i].req.body.end.dateTime) > 0
        /\ args.duration_minutes <= 0 =>
            /\ CallsTo("insert") = <<>>
            /\ BeginsWithFailureMarker

-----------------------------------------------------------------------------
(* Events as the properties read them off the calendar's answer *)

\* the events the calendar answered the list request with
Fetched == Get(CallsTo("list")[1].resp.result, "items", <<>>)

ListAnswered == Len(CallsTo("list")) = 1 /\ CallsTo("list")[1].resp.ok

IsTimed(e) == "dateTime" \in DOMAIN e.start

TimedOf(events) == SelectSeq(events, IsTimed)

\* the calendar day of a timed event, as its start text writes it: YYYY-MM-DD
DayText(e) == SubSeq(e.start.dateTime, 1, 10)

DayNumber(day) ==
    ToOrdinal(StrToInt(SubSeq(day, 1, 4)), StrToInt(SubSeq(day, 6, 7)),
              StrToInt(SubSeq(day, 9, 10)))

\* weekday, month and day of month of a calendar day
DayLabel(day) ==
    <<DayNumber(day) % 7, StrToInt(SubSeq(day, 6, 7)), StrToInt(SubSeq(day, 9, 10))>>

\* HH:MM AM/PM of the time an ISO text shows at its positions 12 to 16
ClockText(text) ==
    LET hh == StrToInt(SubSeq(text, 12, 13))
    IN  ZeroPad(((hh + 11) % 12) + 1, 2) \o <<":">> \o SubSeq(text, 15, 16)
            \o <<" ", IF hh >= 12 THEN "PM" ELSE "AM">>

RECURSIVE DaysInOrder(_, _)
\* the distinct calendar days of the timed events, in order of arrival
DaysInOrder(events, seen) ==
    IF Len(events) = 0 THEN <<>>
    ELSE IF DayText(Head(events)) \in seen THEN DaysInOrder(Tail(events), seen)
    ELSE <<DayText(Head(events))>>
            \o DaysInOrder(Tail(events), seen \cup {DayText(Head(events))})

\* the header of a calendar day: weekday, month and day, then a colon
HeaderOf(day) ==
    <<DayNames[((DayNumber(day) + 6) % 7) + 1], ",", " ",
      MonthNames[StrToInt(SubSeq(day, 6, 7))], " ">>
        \o SubSeq(day, 9, 10) \o <<":">>

\* the line of a timed event under its header
LineOf(e) ==
    <<"  ", "U+2022", " ">> \o ClockText(e.start.dateTime) \o <<": ">>
        \o (IF "summary" \in DOMAIN e THEN e.summary ELSE <<"No title">>)

RECURSIVE LinesOf(_)
LinesOf(events) ==
    IF Len(events) = 0 THEN <<>> ELSE <<LineOf(Head(events))>> \o LinesOf(Tail(events))

RECURSIVE GroupsOf(_, _)
\* day after day: the header of the day, the lines of its timed events in order
\* of arrival, an empty line
GroupsOf(days, events) ==
    IF Len(days) = 0 THEN <<>>
    ELSE <<HeaderOf(Head(days))>>
            \o LinesOf(SelectSeq(events, LAMBDA e : DayText(e) = Head(days)))
            \o <<<<>>>>
            \o GroupsOf(Tail(days), events)

\* the listing below its title and the empty line after it
ListingBody == SubSeq(ret.value, 3, Len(ret.value))

\* one group per distinct calendar day of the fetched timed events, the days in
\* chronological order, every timed event once under the header of its day,
\* the lines of a day in order of arrival, no all-day event
GroupedByCalendarDay ==
    LET timed == TimedOf(Fetched)
        days  == DaysInOrder(timed, {})
    IN  /\ ListingBody = GroupsOf(days, timed)
        /\ \A i, j \in 1..Len(days) : i < j => DayNumber(days[i]) < DayNumber(days[j])

\* no two fetched timed events lie on different calendar days that have the
\* same weekday, month and day of month
DayLabelsDistinct ==
    \A i, j \in 1..Len(Fetched) :
        (IsTimed(Fetched[i]) /\ IsTimed(Fetched[j])
         /\ DayText(Fetched[i]) # DayText(Fetched[j]))
        => DayLabel(DayText(Fetched[i])) # DayLabel(DayText(Fetched[j]))

Listed == Done("list_upcoming_meetings") /\ ListAnswered /\ Len(Fetched) > 0

-----------------------------------------------------------------------------
(* C6 *)

\* C6 as claimed: for every list_upcoming_meetings call whose events arrive
\* ordered by start, the output has one group per distinct calendar day, in
\* chronological order, each timed event once under the header of its own day
\* in arrival order, and no all-day event.
EveryListingGroupedByCalendarDay == Listed => GroupedByCalendarDay

\* C6 as amended: the same, for the calls whose fetched timed events do not
\* lie on different calendar days sharing weekday, month and day of month.
ListingGroupedByCalendarDay == (Listed /\ DayLabelsDistinct) => GroupedByCalendarDay

\* a listing of events on two days, an all-day event among those fetched
TwoDaysListedAllDayOmitted ==
    /\ Listed
    /\ DayLabelsDistinct
    /\ Len(DaysInOrder(TimedOf(Fetched), {})) = 2
    /\ \E i \in 1..Len(Fetched) : ~IsTimed(Fetched[i])
    /\ Len(ListingBody) = 6

-----------------------------------------------------------------------------
(* C10 *)

\* C10: list_upcoming_meetings returns the no-upcoming-meetings message
\* whenever there is no meeting to display, also when every fetched event is
\* an all-day event; any other output has a day header and a meeting line.
NothingToShowSaysNoMeetings ==
    (Done("list_upcoming_meetings") /\ ListAnswered)
    => \/ ret.value = NoMeetingsText(args.days_ahead)
       \/ /\ Len(TimedOf(Fetched)) > 0
          /\ Len(ListingBody) >= 3

-----------------------------------------------------------------------------
(* C7 *)

\* the line of a fetched event among the busy times
BusyLineOf(e) ==
    LET summary == IF "summary" \in DOMAIN e THEN e.summary ELSE <<"Busy">>
    IN  IF IsTimed(e)
        THEN <<"U+2022", " ">> \o ClockText(e.start.dateTime) \o <<" - ">>
                \o ClockText(e.end.dateTime) \o <<": ">> \o summary
        ELSE <<"U+2022", " All day: ">> \o summary

SaysFullyAvailable ==
    /\ Len(ret.value[1]) >= 2
    /\ ret.value[1][2] = " Fully available on "

\* C7: with a well-formed date, find_available_times returns the fully
\* available message with exactly three suggested times if and only if the
\* calendar answered with no event; otherwise one busy line per event, in the
\* order received, HH:MM AM/PM - HH:MM AM/PM: summary for a timed event and
\* All day: summary for a date-only event.
AvailabilityListsEveryEvent ==
    (Done("find_available_times") /\ ListAnswered)
    => /\ ret.kind = "return"
       /\ SaysFullyAvailable <=> (Len(Fetched) = 0)
       /\ Len(Fetched) = 0 =>
            /\ Len(ret.value) = 9
            /\ SubSeq(ret.value, 7, 9) = <<<<"- 10:00 AM">>, <<"- 2:00 PM">>, <<"- 3:00 PM">>>>
       /\ Len(Fetched) > 0 =>
            /\ Len(ret.value) = 5 + Len(Fetched)
            /\ ret.value[3] = <<"Busy times:">>
            /\ \A i \in 1..Len(Fetched) : ret.value[3 + i] = BusyLineOf(Fetched[i])
            /\ ret.value[4 + Len(Fetched)] = <<>>

\* the day with the one event 10:00 to 11:00 Standup
StandupIsTheOneBusyLine ==
    /\ Done("find_available_times")
    /\ ListAnswered
    /\ Len(Fetched) = 1
    /\ ret.value[4] = <<"U+2022", " ", "1", "0", ":", "0", "0", " ", "AM", " - ",
                        "1", "1", ":", "0", "0", " ", "AM", ": ", "Standup">>

-----------------------------------------------------------------------------
(* C3: the conference request identifiers *)

\* C3: every invocation that creates an event sends a conference-creation
\* request identifier unique to that invocation: no two invocations build
\* events with the same identifier.
RequestIdsUniquePerInvocation ==
    \A p \in submitted : \A q \in submitted : p[1] # q[1] => p[2] # q[2]

-----------------------------------------------------------------------------
(* C8: the event loop stays free while the calendar helpers block *)

Blocked == {i \in 1..Len(thr) : thr[i].tool \in CalendarTools /\ thr[i].at \in {"refresh", "api"}}

\* <<tool, arguments, text>>: the texts the helper of each calendar tool can
\* return for given arguments
OwnResults ==
    UNION {UNION {{<<name, a, SyncHelper(name, a, c, refresh, api).out>> :
                    c \in 0..MaxClock, refresh \in RefreshAnswers,
                    api \in ApiAnswers(name)} :
                  a \in ServerArgs(name)} :
           name \in CalendarTools}

\* C8: the blocking work of a calendar tool runs off the event loop.  With
\* any number of calendar invocations blocked on the network, the event-loop
\* thread is never the blocked one and can accept a health read or another
\* tool call; and once the worker of an invocation has finished, its result
\* can be delivered, and what is delivered to a caller is the result of that
\* caller's own invocation.
LoopStaysResponsive ==
    /\ loop = 0
    /\ \A i \in 1..Len(thr) : thr[i].tool \in CalendarTools => thr[i].runner = "worker"
    /\ (Blocked # {} /\ nextId < MaxCalls) =>
            /\ ENABLED HealthCheck
            /\ ENABLED AcceptSearch
            /\ ENABLED AcceptCalendarCall
    /\ \A i \in 1..Len(thr) :
        /\ thr[i].at = "finished" => ENABLED Deliver(i)
        /\ (thr[i].tool \in CalendarTools /\ thr[i].at = "delivered") =>
                /\ delivered[i] = thr[i].result
                /\ <<thr[i].tool, thr[i].args, delivered[i]>> \in OwnResults
        /\ (thr[i].tool \in CalendarTools /\ thr[i].at # "delivered") =>
                delivered[i] = NoCall

\* a health read was answered after a calendar call that is still blocked
\* on the network
HealthAnsweredWhileCalendarBlocked ==
    \E i \in Blocked : \E j \in 1..Len(thr) :
        /\ i < j
        /\ thr[j].tool = "health"
        /\ delivered[j] = Return(HealthText(TRUE, TRUE))

=============================================================================
